---- MODULE Spec2Model ----
(***************************************************************************)
(* A model of table.py: the command line entry point cli, the construction *)
(* and validation of a BenchmarkTable, the normalisation compared_to, the  *)
(* geometric mean geo_mean and the report writer print_markdown.           *)
(*                                                                         *)
(* Numbers.  A measurement is a Python number.  The model keeps the        *)
(* non-negative ones, as a pair <<n, d>>:                                  *)
(*     d > 0         the finite value n/d, in lowest terms                 *)
(*     <<1, 0>>      float("inf")                                          *)
(*     <<0, 0>>      float("nan")                                          *)
(* Division, multiplication and < follow Python's float rules on these     *)
(* values (x / 0 raises ZeroDivisionError, inf / inf and inf * 0 are nan,  *)
(* every comparison with nan is False).  Finite values are exact           *)
(* rationals: rounding is not modelled.                                    *)
(*                                                                         *)
(* Not modelled: the --demo data sets (two fixed, valid data sets of 4     *)
(* machines and 5 or 8 tests, whose products exceed TLC's integers), the   *)
(* prompts of new_data_set (its result is modelled) and create_pdf's call  *)
(* of pandoc (only whether pandoc is found).                               *)
(***************************************************************************)
EXTENDS Integers, Sequences, FiniteSets, TLC

\* ------------------------------------------------------------------ bounds
\* Largest number of machines (keys of data) of a data set.
MaxMachines == 3
\* Largest number of tests (length of a machine's list) of a data set.
MaxTests == 2
\* Largest number of measurements of a data set that are not 10.
MaxVaried == 2

\* ----------------------------------------------------------------- numbers
Zero == <<0, 1>>
One == <<1, 1>>
Ten == <<10, 1>>
Twenty == <<20, 1>>
Inf == <<1, 0>>
NaN == <<0, 0>>

\* The measurements a data set is drawn from.
Measurements == {Zero, Ten, Twenty, Inf}

IsNaN(a) == a = NaN
IsInf(a) == a = Inf
IsFinite(a) == a[2] > 0

RECURSIVE Gcd(_, _)
Gcd(a, b) == IF b = 0 THEN a ELSE Gcd(b, a % b)

\* The finite value n/d (d > 0) in lowest terms.
Norm(n, d) == LET g == Gcd(n, d) IN <<n \div g, d \div g>>

\* a / b raises ZeroDivisionError.
DivRaises(a, b) == b = Zero

\* a / b for b # 0.
Div(a, b) ==
    IF IsNaN(a) \/ IsNaN(b) THEN NaN
    ELSE IF IsInf(a) THEN (IF IsInf(b) THEN NaN ELSE Inf)
    ELSE IF IsInf(b) THEN Zero
    ELSE Norm(a[1] * b[2], a[2] * b[1])

\* a * b.
Mul(a, b) ==
    IF IsNaN(a) \/ IsNaN(b) THEN NaN
    ELSE IF IsInf(a) \/ IsInf(b)
         THEN (IF a = Zero \/ b = Zero THEN NaN ELSE Inf)
    ELSE Norm(a[1] * b[1], a[2] * b[2])

\* a < b.
Lt(a, b) ==
    IF IsNaN(a) \/ IsNaN(b) THEN FALSE
    ELSE IF IsInf(a) THEN FALSE
    ELSE IF IsInf(b) THEN TRUE
    ELSE a[1] * b[2] < b[1] * a[2]

RECURSIVE Power(_, _)
\* a ** k for an integer k >= 0.
Power(a, k) == IF k = 0 THEN One ELSE Mul(a, Power(a, k - 1))

\* math.pow(p, 1 / n) is kept as the pair [rad |-> p, idx |-> n]: the n-th
\* root of p.  x |-> x ** (1/n) is increasing on the non-negative numbers and
\* keeps 0, inf and nan, so the n-th root of p is less than the m-th root of q
\* exactly when p ** m < q ** n.
Root(p, n) == [rad |-> p, idx |-> n]

MeanLt(x, y) == Lt(Power(x.rad, y.idx), Power(y.rad, x.idx))

MeanIsNaN(x) == IsNaN(x.rad)

\* ------------------------------------------------------------------ sorted
\* sorted(items, key=operator.itemgetter(1)) on a list of pairs
\* <<computer, mean>>, as CPython's list.sort computes it on a list shorter
\* than 64: the leading run is found (and reversed when strictly descending),
\* then the rest is placed by binary insertion.  Only < on the keys is used.
\* KeyLt with the comparison turned round: a descending sort.
KeyGt(x, y) == MeanLt(y[2], x[2])

KeyLt(x, y) == MeanLt(x[2], y[2])

RECURSIVE RunEnd(_, _, _)
\* The last index of the run of s that starts at 1 and reaches at least i.
RunEnd(s, i, descending) ==
    IF i = Len(s) THEN i
    ELSE IF KeyLt(s[i + 1], s[i]) = descending THEN RunEnd(s, i + 1, descending)
    ELSE i

\* count_run: the length of the leading run and whether it is descending.
CountRun(s) ==
    LET descending == KeyLt(s[2], s[1])
    IN  [n |-> RunEnd(s, 2, descending), descending |-> descending]

RECURSIVE Reverse(_)
Reverse(s) == IF s = <<>> THEN <<>> ELSE Reverse(Tail(s)) \o <<Head(s)>>

\* s with its first n elements reversed.
ReversePrefix(s, n) == Reverse(SubSeq(s, 1, n)) \o SubSeq(s, n + 1, Len(s))

RECURSIVE BinarySearch(_, _, _, _)
\* The place of pivot among s[l..r-1]: after every element not greater.
BinarySearch(s, pivot, l, r) ==
    IF l >= r THEN l
    ELSE LET p == l + ((r - l) \div 2)
         IN  IF KeyLt(pivot, s[p]) THEN BinarySearch(s, pivot, l, p)
             ELSE BinarySearch(s, pivot, p + 1, r)

\* s[start] moved to position l, the elements between shifted right.
InsertAt(s, start, l) ==
    SubSeq(s, 1, l - 1) \o <<s[start]>> \o SubSeq(s, l, start - 1)
        \o SubSeq(s, start + 1, Len(s))

RECURSIVE BinarySort(_, _)
\* binarysort: s[1..start-1] is sorted; place s[start..] one by one.
BinarySort(s, start) ==
    IF start > Len(s) THEN s
    ELSE BinarySort(InsertAt(s, start, BinarySearch(s, s[start], 1, start)),
                    start + 1)

sorted(items) ==
    IF Len(items) < 2 THEN items
    ELSE LET run == CountRun(items)
             s1 == IF run.descending THEN ReversePrefix(items, run.n) ELSE items
         IN  BinarySort(s1, run.n + 1)

\* ------------------------------------------------------------------- dicts
\* A dict is the sequence of its <<key, value>> items in insertion order.
DictKeys(d) == [i \in 1..Len(d) |-> d[i][1]]

Lookup(d, k) == d[CHOOSE i \in 1..Len(d) : d[i][1] = k][2]

Range(s) == {s[i] : i \in 1..Len(s)}

\* --------------------------------------------------------------- data sets
\* The machine names of new_data_set: chr(i + 65).
MachineNames == <<"A", "B", "C", "D", "E">>

HeaderNames == <<"Computer", "T1", "T2", "T3", "T4", "T5">>

\* The first k column headers.
HeadersOfLen(k) == [i \in 1..k |-> HeaderNames[i]]

\* The data set types tried: the two tags and one that is neither.
Types == {"LIB", "HIB", "MIB"}

DataSet(headers, data, type) ==
    [title |-> "Title", headers |-> headers, data |-> data, type |-> type]

\* The dict of the machines A, B, ... with the lists f[1], f[2], ...
DictOf(f, m) == [i \in 1..m |-> <<MachineNames[i], f[i]>>]

\* What new_data_set returns: num_tests headers after "Computer", one list
\* of num_tests values per machine, and the type as typed.  The values are
\* 10 but for at most MaxVaried of them.
NewDataSet(ds) ==
    \E m \in 0..MaxMachines, n \in 0..MaxTests, t \in Types :
        \E varied \in SUBSET ((1..m) \X (1..n)) :
            /\ Cardinality(varied) <= MaxVaried
            /\ \E g \in [varied -> Measurements \ {Ten}] :
                ds = DataSet(HeadersOfLen(n + 1),
                             DictOf([i \in 1..m |-> [j \in 1..n |->
                                        IF <<i, j>> \in varied THEN g[<<i, j>>]
                                                                ELSE Ten]], m),
                             t)

\* A data set with any number of headers and lists of any lengths, every
\* value 10.
ShapeDataSet(ds) ==
    \E m \in 0..MaxMachines, k \in 0..(MaxTests + 1), t \in Types :
        \E len \in [1..m -> 0..MaxTests] :
            ds = DataSet(HeadersOfLen(k),
                         DictOf([i \in 1..m |-> [j \in 1..len[i] |-> Ten]], m), t)

\* What a .json or .py file can hold.
FileDataSet(ds) == NewDataSet(ds) \/ ShapeDataSet(ds)

\* The value of data_set before anything is loaded: tuple().
NoDataSet == DataSet(<<>>, <<>>, "")

\* --------------------------------------------------- validate_data_set
\* validate_data_set without the loop over data.values() (lines 224-226).
validate_first_row_only(ds) ==
    IF Len(ds.data) = 0 THEN "IndexError"
    ELSE LET first == ds.data[1][2]
         IN  IF Len(ds.headers) - 1 # Len(first)
                 THEN "Column headers and data set don't match"
             ELSE IF ~(ds.type = "LIB") /\ ~(ds.type = "HIB")
                 THEN "Invalid data type"
             ELSE "ok"

\* validate_data_set without the check of data_type (lines 227-228).
validate_without_type(ds) ==
    IF Len(ds.data) = 0 THEN "IndexError"
    ELSE LET first == ds.data[1][2]
         IN  IF Len(ds.headers) - 1 # Len(first)
                 THEN "Column headers and data set don't match"
             ELSE IF \E i \in 1..Len(ds.data) : Len(ds.data[i][2]) # Len(first)
                 THEN "Rows don't have the same number of data points"
             ELSE "ok"

\* validate_data_set without the check of the headers (lines 222-223).
validate_without_headers(ds) ==
    IF Len(ds.data) = 0 THEN "IndexError"
    ELSE LET first == ds.data[1][2]
         IN  IF \E i \in 1..Len(ds.data) : Len(ds.data[i][2]) # Len(first)
                 THEN "Rows don't have the same number of data points"
             ELSE IF ~(ds.type = "LIB") /\ ~(ds.type = "HIB")
                 THEN "Invalid data type"
             ELSE "ok"

\* What validate_data_set does with a data set: "IndexError" (no machine),
\* one of the three calls of error, or "ok" (it returns).
validate_data_set(ds) ==
    IF Len(ds.data) = 0 THEN "IndexError"
    ELSE LET first == ds.data[1][2]
         IN  IF Len(ds.headers) - 1 # Len(first)
                 THEN "Column headers and data set don't match"
             ELSE IF \E i \in 1..Len(ds.data) : Len(ds.data[i][2]) # Len(first)
                 THEN "Rows don't have the same number of data points"
             ELSE IF ~(ds.type = "LIB") /\ ~(ds.type = "HIB")
                 THEN "Invalid data type"
             ELSE "ok"

\* ------------------------------------------------------------- compared_to
\* Normalized with the two quotients exchanged.
NormalizedSwapped(type, refValue, m) ==
    IF type = "LIB" THEN Div(m, refValue) ELSE Div(refValue, m)

\* Normalized with * written for /.
NormalizedProduct(type, refValue, m) ==
    IF type = "LIB" THEN Mul(refValue, m) ELSE Mul(m, refValue)

\* One normalized value: line 124 (LIB) or line 127 (HIB).
Normalized(type, refValue, m) ==
    IF type = "LIB" THEN Div(refValue, m) ELSE Div(m, refValue)

NormalizedRaises(type, refValue, m) ==
    IF type = "LIB" THEN DivRaises(refValue, m) ELSE DivRaises(m, refValue)

\* How compared_to ends: "SystemExit" (the INVALID CONFIGURATION branch),
\* "ZeroDivisionError", or "ok" (it returns).
ComparedToOutcome(this, ref_machine) ==
    IF Len(this.data) > 0 /\ this.type # "LIB" /\ this.type # "HIB"
        THEN "SystemExit"
    ELSE LET reference == Lookup(this.data, ref_machine)
         IN  IF \E k \in 1..Len(this.data) : \E i \in 1..Len(this.data[k][2]) :
                    NormalizedRaises(this.type, reference[i], this.data[k][2][i])
                 THEN "ZeroDivisionError"
             ELSE "ok"

RECURSIVE NormalizedList(_, _, _, _)
\* Lines 121-127: the list normalized of one machine, from its i-th value on.
NormalizedList(type, reference, v, i) ==
    IF i > Len(v) THEN <<>>
    ELSE <<Normalized(type, reference[i], v[i])>>
             \o NormalizedList(type, reference, v, i + 1)

RECURSIVE ResultFrom(_, _, _)
\* Lines 120-131: the items of result, from the k-th machine on.
ResultFrom(this, reference, k) ==
    IF k > Len(this.data) THEN <<>>
    ELSE <<<<this.data[k][1],
             NormalizedList(this.type, reference, this.data[k][2], 1)>>>>
             \o ResultFrom(this, reference, k + 1)

\* The dict compared_to returns.
compared_to(this, ref_machine) ==
    ResultFrom(this, Lookup(this.data, ref_machine), 1)

\* ---------------------------------------------------------------- geo_mean
RECURSIVE Reduce(_, _, _)
\* functools.reduce(operator.mul, data) from the i-th value on, acc so far.
Reduce(data, i, acc) ==
    IF i > Len(data) THEN acc ELSE Reduce(data, i + 1, Mul(acc, data[i]))

\* reduce of an empty sequence with no initial value raises TypeError.
GeoMeanRaises(data) == Len(data) = 0

geo_mean(data) == Root(Reduce(data, 2, data[1]), Len(data))

\* ----------------------------------------------------- print_markdown parts
\* What the writer is given, in units: a title, a table, a section heading,
\* the sentence before a ranking, a ranking.  rows are the machines of a
\* table's rows or of a ranking's sentences, in order.
Part(kind, ref_machine, rows) == [kind |-> kind, ref |-> ref_machine, rows |-> rows]

\* print_table(items): the header rows, then one row per item.
print_table(items) == Part("table", "", DictKeys(items))

RECURSIVE GeoMeans(_, _)
\* Lines 167-170: the items of the dict geo_means, from the i-th on.
GeoMeans(normalized, i) ==
    IF i > Len(normalized) THEN <<>>
    ELSE <<<<normalized[i][1], geo_mean(normalized[i][2])>>>>
             \o GeoMeans(normalized, i + 1)

\* Lines 167-171: the geometric means, sorted.
SortedGeoMeans(normalized) == sorted(GeoMeans(normalized, 1))

RECURSIVE ResultsAll(_, _, _)
\* Results without the test computer != ref_machine (line 176).
ResultsAll(means, i, ref_machine) ==
    IF i > Len(means) THEN <<>>
    ELSE <<means[i][1]>> \o ResultsAll(means, i + 1, ref_machine)

RECURSIVE Results(_, _, _)
\* Lines 174-180: a sentence for every computer of means but ref_machine.
Results(means, i, ref_machine) ==
    IF i > Len(means) THEN <<>>
    ELSE (IF means[i][1] # ref_machine THEN <<means[i][1]>> ELSE <<>>)
             \o Results(means, i + 1, ref_machine)

\* ------------------------------------------------------------------- state
VARIABLES
    pc,          \* where the run is: "cli", "validate", "output", "print",
                 \* "section", "close", "done" (the process has ended)
    data_set,    \* the local data_set of __init__
    self,        \* the BenchmarkTable's title, headers, data, type
    constructed, \* __init__ has returned
    output,      \* cli's output option: "" (None), "md" or "pdf"
    fileState,   \* the output file: "unopened", "open", "closed"
    file,        \* the parts written to the output file
    stdout,      \* the parts and messages written to standard output
    ref,         \* the index in self.data of the loop's ref_machine
    normalized,  \* compared_to_ref_machine of the last section
    geo_means,   \* geo_means (sorted) of the last section
    raised,      \* the exception that ended the run, "" if none
    exitCode     \* the exit status once pc = "done"

vars == <<pc, data_set, self, constructed, output, fileState, file, stdout,
          ref, normalized, geo_means, raised, exitCode>>

Message(text) == Part("message", "", <<text>>)

Init ==
    /\ pc = "cli"
    /\ data_set = NoDataSet
    /\ self = NoDataSet
    /\ constructed = FALSE
    /\ output = ""
    /\ fileState = "unopened"
    /\ file = <<>>
    /\ stdout = <<>>
    /\ ref = 0
    /\ normalized = <<>>
    /\ geo_means = <<>>
    /\ raised = ""
    /\ exitCode = 0

\* The process ends through exit(code) or quit(): SystemExit.
Exit(code) ==
    /\ pc' = "done"
    /\ raised' = "SystemExit"
    /\ exitCode' = code

\* The process ends with an uncaught exception: a traceback, status 1.
Uncaught(exception) ==
    /\ pc' = "done"
    /\ raised' = exception
    /\ exitCode' = 1

\* error(message): print, then exit(1).
error(message) ==
    /\ stdout' = Append(stdout, Message(message))
    /\ Exit(1)

\* __init__, lines 65-86, with the file named by --load there: lines 73-79.
LoadFile ==
    /\ pc = "cli"
    /\ FileDataSet(data_set')
    /\ pc' = "validate"
    /\ UNCHANGED <<self, constructed, output, fileState, file, stdout, ref,
                   normalized, geo_means, raised, exitCode>>

\* Line 74 with no such .json file: open raises FileNotFoundError, which
\* nothing catches.
LoadMissingJson ==
    /\ pc = "cli"
    /\ Uncaught("FileNotFoundError")
    /\ UNCHANGED <<data_set, self, constructed, output, fileState, file,
                   stdout, ref, normalized, geo_means>>

\* Lines 77-82 with no such .py file: the message, then quit().
LoadMissingPy ==
    /\ pc = "cli"
    /\ stdout' = Append(stdout, Message("File not found. Aborting."))
    /\ Exit(0)
    /\ UNCHANGED <<data_set, self, constructed, output, fileState, file,
                   ref, normalized, geo_means>>

\* Lines 83-84: --new.
LoadNew ==
    /\ pc = "cli"
    /\ NewDataSet(data_set')
    /\ pc' = "validate"
    /\ UNCHANGED <<self, constructed, output, fileState, file, stdout, ref,
                   normalized, geo_means, raised, exitCode>>

\* Lines 85-86: no option.
LoadNothing ==
    /\ pc = "cli"
    /\ error("run with --help for more information.")
    /\ UNCHANGED <<data_set, self, constructed, output, fileState, file,
                   ref, normalized, geo_means>>

\* Lines 88-89: validate_data_set(data_set), then the assignment to self.
Validate ==
    /\ pc = "validate"
    /\ LET outcome == validate_data_set(data_set)
       IN  IF outcome = "ok"
               THEN /\ self' = data_set
                    /\ constructed' = TRUE
                    /\ pc' = "output"
                    /\ UNCHANGED <<stdout, raised, exitCode>>
           ELSE IF outcome = "IndexError"
               THEN /\ Uncaught("IndexError")
                    /\ UNCHANGED <<self, constructed, stdout>>
           ELSE /\ error(outcome)
                /\ UNCHANGED <<self, constructed>>
    /\ UNCHANGED <<data_set, output, fileState, file, ref, normalized,
                   geo_means>>

\* cli, lines 370-380: the output option decides where the report goes; a
\* named file is opened for writing (a .pdf name as the .md file).
OpenOutput ==
    /\ pc = "output"
    /\ \E o \in {"", "md", "pdf"} :
        /\ output' = o
        /\ fileState' = IF o = "" THEN "unopened" ELSE "open"
    /\ pc' = "print"
    /\ UNCHANGED <<data_set, self, constructed, file, stdout, ref, normalized,
                   geo_means, raised, exitCode>>

\* writer: print, or output.write with a newline added.
Write(parts) ==
    IF output = ""
        THEN stdout' = stdout \o parts /\ UNCHANGED file
        ELSE file' = file \o parts /\ UNCHANGED stdout

\* An exception leaves the with block of cli: the file is closed.
Unwind == fileState' = IF fileState = "open" THEN "closed" ELSE fileState

\* print_markdown, lines 145-149: the title and the table of the data.
PrintData ==
    /\ pc = "print"
    /\ Write(<<Part("title", "", <<self.title>>), print_table(self.data)>>)
    /\ pc' = "section"
    /\ UNCHANGED <<data_set, self, constructed, output, fileState, ref,
                   normalized, geo_means, raised, exitCode>>

\* RefMachine walking the keys from the last to the first.
RefMachineReversed(this, r) == this.data[Len(this.data) + 1 - r][1]

\* Line 152: the r-th ref_machine of the loop over self.data.keys().
RefMachine(this, r) == this.data[r][1]

\* Lines 154-156, 160-164 and 174-181: what one turn of the loop writes.
Heading(ref_machine) == <<Part("heading", ref_machine, <<>>)>>

Table(result, ref_machine) ==
    <<print_table(result), Part("intro", ref_machine, <<>>)>>

Ranking(means, ref_machine) ==
    <<Part("ranking", ref_machine, Results(means, 1, ref_machine))>>

\* print_markdown, lines 152-181: one turn of the loop over self.data.keys().
\* ref counts the turns begun.  An exception leaves compared_to_ref_machine
\* and geo_means as the turn before set them.
PrintSection ==
    /\ pc = "section"
    /\ ref < Len(self.data)
    /\ ref' = ref + 1
    /\ LET ref_machine == RefMachine(self, ref + 1)
           outcome == ComparedToOutcome(self, ref_machine)
       IN  IF outcome = "SystemExit"
               THEN /\ file' = file \o (IF output = "" THEN <<>>
                                        ELSE Heading(ref_machine))
                    /\ stdout' = (stdout \o (IF output = "" THEN Heading(ref_machine)
                                             ELSE <<>>))
                                     \o <<Message("ERROR: INVALID CONFIGURATION!")>>
                    /\ Exit(1)
                    /\ Unwind
                    /\ UNCHANGED <<normalized, geo_means>>
           ELSE IF outcome = "ZeroDivisionError"
               THEN /\ Write(Heading(ref_machine))
                    /\ Uncaught("ZeroDivisionError")
                    /\ Unwind
                    /\ UNCHANGED <<normalized, geo_means>>
           ELSE \E result \in {compared_to(self, ref_machine)} :
               IF \E i \in 1..Len(result) : GeoMeanRaises(result[i][2])
                   THEN /\ Write(Heading(ref_machine) \o Table(result, ref_machine))
                        /\ normalized' = result
                        /\ Uncaught("TypeError")
                        /\ Unwind
                        /\ UNCHANGED geo_means
               ELSE \E means \in {SortedGeoMeans(result)} :
                        /\ Write(Heading(ref_machine) \o Table(result, ref_machine)
                                     \o Ranking(means, ref_machine))
                        /\ normalized' = result
                        /\ geo_means' = means
                        /\ pc' = IF ref + 1 = Len(self.data) THEN "close"
                                                              ELSE "section"
                        /\ UNCHANGED <<fileState, raised, exitCode>>
    /\ UNCHANGED <<data_set, self, constructed, output>>

\* cli, lines 373-380 after print_markdown: the with block closes the file;
\* for a .pdf name create_pdf runs pandoc, or calls error without it.
Finish ==
    /\ pc = "close"
    /\ fileState' = IF fileState = "open" THEN "closed" ELSE fileState
    /\ \E pandoc \in BOOLEAN :
        IF output = "pdf" /\ ~pandoc
            THEN error("pandoc is not installed, unable to create pdf")
            ELSE /\ pc' = "done"
                 /\ UNCHANGED <<stdout, raised, exitCode>>
    /\ UNCHANGED <<data_set, self, constructed, output, file, ref, normalized,
                   geo_means>>

Next ==
    \/ LoadFile
    \/ LoadMissingJson
    \/ LoadMissingPy
    \/ LoadNew
    \/ LoadNothing
    \/ Validate
    \/ OpenOutput
    \/ PrintData
    \/ PrintSection
    \/ Finish

Spec == Init /\ [][Next]_vars

\* ============================================================== properties
\* The report: what print_markdown has written, wherever it writes.
Report ==
    IF output = "" THEN SelectSeq(stdout, LAMBDA p : p.kind # "message")
    ELSE file

\* validate_data_set has run on a loaded data set.
Validated == pc \notin {"cli", "validate"} /\ data_set # NoDataSet

\* The reference machine of the section begun last.
RefNow == self.data[ref][1]

\* The number of tests.
NumTests == Len(self.headers) - 1

\* compared_to has returned in the section begun last.
ViewComputed ==
    /\ constructed
    /\ ref >= 1
    /\ raised # "ZeroDivisionError"
    /\ self.type \in {"LIB", "HIB"}

\* The ranking of the section begun last has been computed.
RankingComputed == ViewComputed /\ raised # "TypeError"

Half == <<1, 2>>
Two == <<2, 1>>

\* The data of the end-to-end example: {A: [10, 20], B: [20, 10]}.
ExampleData == << <<"A", <<Ten, Twenty>>>>, <<"B", <<Twenty, Ten>>>> >>
ExampleLIB == << <<"A", <<One, One>>>>, <<"B", <<Half, Two>>>> >>
ExampleHIB == << <<"A", <<One, One>>>>, <<"B", <<Two, Half>>>> >>

\* C1: whenever compared_to(R) returns, its result has the keys of the data
\* in the same order and lists of the same lengths, the value of machine m in
\* test i is data[R][i] / data[m][i] for LIB and data[m][i] / data[R][i] for
\* HIB, and the example {A: [10, 20], B: [20, 10]} with reference A yields
\* {A: [1, 1], B: [0.5, 2]} for LIB and {A: [1, 1], B: [2, 0.5]} for HIB.
C1_ComparedTo ==
    ViewComputed =>
        /\ DictKeys(normalized) = DictKeys(self.data)
        /\ \A reference \in {Lookup(self.data, RefNow)} :
           \A k \in 1..Len(self.data) :
            /\ Len(normalized[k][2]) = Len(self.data[k][2])
            /\ \A i \in 1..Len(self.data[k][2]) :
                LET r == reference[i]
                    m == self.data[k][2][i]
                IN  normalized[k][2][i] =
                        IF self.type = "LIB" THEN Div(r, m) ELSE Div(m, r)
        /\ (self.data = ExampleData /\ ref = 1) =>
               normalized = IF self.type = "LIB" THEN ExampleLIB ELSE ExampleHIB

\* The example, normalized with A as reference under LIB.
C1_Witness ==
    /\ ViewComputed
    /\ self.data = ExampleData
    /\ self.type = "LIB"
    /\ ref = 1
    /\ normalized = ExampleLIB

Ones(n) == [i \in 1..n |-> One]

RefIsFinite ==
    \A i \in 1..Len(Lookup(self.data, RefNow)) :
        IsFinite(Lookup(self.data, RefNow)[i])

RefHasZero ==
    \E i \in 1..Len(Lookup(self.data, RefNow)) :
        Lookup(self.data, RefNow)[i] = Zero

Mismatch(ds) ==
    \E i \in 1..Len(ds.data) : Len(ds.data[i][2]) # Len(ds.headers) - 1

BadType(ds) == ds.type \notin {"LIB", "HIB"}

\* The run ended in error(message), before anything else was written.
RejectedWith(messages) ==
    /\ pc = "done"
    /\ ~constructed
    /\ raised = "SystemExit"
    /\ exitCode = 1
    /\ Len(stdout) = 1
    /\ stdout[1].kind = "message"
    /\ stdout[1].rows[1] \in messages

\* C3: a data set in which some machine's list is not len(headers) - 1 long
\* is rejected by validate_data_set with a message and exit status 1, first
\* machine or later; every constructed table has lists of len(headers) - 1.
C3_Lengths ==
    /\ (Validated /\ Mismatch(data_set)) =>
           RejectedWith({"Column headers and data set don't match",
                         "Rows don't have the same number of data points"})
    /\ constructed => ~Mismatch(self)

\* The first machine agrees with the headers, a later one does not, and the
\* data set was rejected.
C3_Witness ==
    /\ Validated
    /\ Len(data_set.data) >= 2
    /\ Len(data_set.data[1][2]) = Len(data_set.headers) - 1
    /\ Mismatch(data_set)
    /\ RejectedWith({"Rows don't have the same number of data points"})

\* C4: a data set whose type is neither "LIB" nor "HIB" never becomes a
\* table: the run ends with status 1 (with the message of the type check when
\* nothing else is wrong with the data set); a constructed table's type is
\* one of the two tags and compared_to never prints INVALID CONFIGURATION.
C4_Type ==
    /\ (Validated /\ BadType(data_set)) =>
           /\ pc = "done"
           /\ ~constructed
           /\ exitCode = 1
           /\ (Len(data_set.data) > 0 /\ ~Mismatch(data_set)) =>
                  RejectedWith({"Invalid data type"})
    /\ constructed => self.type \in {"LIB", "HIB"}
    /\ \A i \in 1..Len(stdout) :
           stdout[i] # Message("ERROR: INVALID CONFIGURATION!")

\* A rectangular data set with matching headers and a wrong type was
\* rejected by the type check.
C4_Witness ==
    /\ Validated
    /\ BadType(data_set)
    /\ Len(data_set.data) = MaxMachines
    /\ ~Mismatch(data_set)
    /\ RejectedWith({"Invalid data type"})

\* C5: when validation fails (headers and lists disagree, lists of different
\* lengths, wrong type) the message is printed, the exit status is 1, no
\* part of the report is written anywhere and the output file is not opened.
C5_NoPartialReport ==
    (Validated /\ Len(data_set.data) > 0
         /\ (Mismatch(data_set) \/ BadType(data_set))) =>
        /\ RejectedWith({"Column headers and data set don't match",
                         "Rows don't have the same number of data points",
                         "Invalid data type"})
        /\ Report = <<>>
        /\ file = <<>>
        /\ fileState = "unopened"

\* Rectangular data with the wrong number of headers: rejected, nothing
\* written, no file.
C5_Witness ==
    /\ Validated
    /\ Len(data_set.data) > 0
    /\ ~BadType(data_set)
    /\ RejectedWith({"Column headers and data set don't match"})
    /\ Report = <<>>
    /\ fileState = "unopened"

MeanEq(x, y) ==
    ~MeanIsNaN(x) /\ ~MeanIsNaN(y) /\ ~MeanLt(x, y) /\ ~MeanLt(y, x)

MeanLeq(x, y) == MeanLt(x, y) \/ MeanEq(x, y)

\* The place of machine k in the data.
Place(k) == CHOOSE i \in 1..Len(self.data) : self.data[i][1] = k

\* means is in non-decreasing order of mean, equal means in the order of
\* the data.
Ranked(means) ==
    /\ \A i \in 1..(Len(means) - 1) : MeanLeq(means[i][2], means[i + 1][2])
    /\ \A i, j \in 1..Len(means) :
           (i < j /\ MeanEq(means[i][2], means[j][2])) =>
               Place(means[i][1]) < Place(means[j][1])

NoNaNMean == \A i \in 1..Len(geo_means) : ~MeanIsNaN(geo_means[i][2])

\* C6 as stated: every ranking is in non-decreasing order of geometric
\* mean, ties in insertion order.
C6_Original == RankingComputed => Ranked(geo_means)

\* C6 amended: a ranking none of whose geometric means is NaN lists every
\* machine once with its mean, in non-decreasing order of mean, ties in
\* insertion order.
C6_Amended ==
    (RankingComputed /\ NoNaNMean) =>
        /\ Ranked(geo_means)
        /\ Len(geo_means) = Len(normalized)
        /\ \A i \in 1..Len(normalized) :
               <<normalized[i][1], geo_mean(normalized[i][2])>> \in Range(geo_means)

\* A ranking that moved a machine and kept a tie in insertion order.
C6_Witness ==
    /\ RankingComputed
    /\ NoNaNMean
    /\ DictKeys(geo_means) # DictKeys(self.data)
    /\ \E i \in 1..(Len(geo_means) - 1) :
           MeanEq(geo_means[i][2], geo_means[i + 1][2])
    /\ \E i \in 1..(Len(geo_means) - 1) :
           MeanLt(geo_means[i][2], geo_means[i + 1][2])

\* C7: every ranking of the report, for reference R, has one sentence for
\* each machine but R and none for R, and the table of its section has a row
\* for every machine, R included.
C7_Ranking ==
    \A idx \in 1..Len(Report) :
        Report[idx].kind = "ranking" =>
            LET R == Report[idx].ref
                rows == Report[idx].rows
                table == Report[idx - 2]
            IN  /\ \A i \in 1..Len(self.data) :
                       self.data[i][1] # R =>
                           Cardinality({j \in 1..Len(rows) :
                                            rows[j] = self.data[i][1]}) = 1
                /\ R \notin Range(rows)
                /\ Len(rows) = Len(self.data) - 1
                /\ table.kind = "table"
                /\ table.rows = DictKeys(self.data)
                /\ R \in Range(table.rows)

\* A ranking with a sentence for each of two other machines, in a file.
C7_Witness ==
    /\ output # ""
    /\ \E idx \in 1..Len(Report) :
           /\ Report[idx].kind = "ranking"
           /\ Len(Report[idx].rows) >= 2
           /\ Report[idx].ref \notin Range(Report[idx].rows)

\* C8 as stated: a run that failed to load a data set ends with a non-zero
\* exit status and no report.
C8_Claim ==
    (pc = "done" /\ data_set = NoDataSet) =>
        /\ exitCode # 0
        /\ Report = <<>>
        /\ fileState = "unopened"

\* C9 as stated: geo_mean is never given an empty sequence in a run whose
\* data set passed validation (there it would raise TypeError, from reduce).
C9_Claim == constructed => raised # "TypeError"

Shapes(parts) == [i \in 1..Len(parts) |-> <<parts[i].kind, parts[i].ref>>]

RECURSIVE SectionShapes(_, _)
SectionShapes(keys, i) ==
    IF i > Len(keys) THEN <<>>
    ELSE << <<"heading", keys[i]>>, <<"table", "">>, <<"intro", keys[i]>>,
            <<"ranking", keys[i]>> >> \o SectionShapes(keys, i + 1)

\* The parts of a whole report, in order.
ExpectedShapes ==
    << <<"title", "">>, <<"table", "">> >>
        \o SectionShapes(DictKeys(self.data), 1)

IsPrefix(s, t) == Len(s) <= Len(t) /\ \A i \in 1..Len(s) : s[i] = t[i]

\* print_markdown has returned.
Printed ==
    \/ pc = "close"
    \/ pc = "done" /\ constructed /\ raised \notin {"ZeroDivisionError", "TypeError"}

\* C10: what is written is at every moment a beginning of: the title, the
\* table of the data, then for each machine in insertion order its heading,
\* its normalized table and its ranking; it is all of that once
\* print_markdown has returned; and the table's title, headers, data and
\* type never change.
C10_Order ==
    /\ [](constructed =>
             /\ IsPrefix(Shapes(Report), ExpectedShapes)
             /\ Printed => Shapes(Report) = ExpectedShapes)
    /\ [][constructed => self' = self]_vars

\* A whole report of MaxMachines sections, written to a file.
C10_Witness ==
    /\ pc = "done"
    /\ raised = ""
    /\ output # ""
    /\ Len(self.data) >= 2
    /\ Shapes(Report) = ExpectedShapes

====
